---- MODULE Spec2Model ----
(***************************************************************************)
(* Metric accumulators of package sentry (Counter, Gauge, Distribution,    *)
(* Set), their sanitizers and their wire serialization.                    *)
(*                                                                         *)
(* The repository holds two revisions of the package: metrics.go and an    *)
(* earlier file (unnamed/part_000).  The variable rev says which one a     *)
(* behaviour runs; definitions that differ between the two carry the       *)
(* suffix _part000 (or the receiver name of the earlier file).             *)
(*                                                                         *)
(* Strings are sequences of one-character strings.  float64 values are     *)
(* integers counting halves (3 stands for 1.5), which float64 represents   *)
(* and adds exactly in the ranges used here.                               *)
(***************************************************************************)
EXTENDS Integers, Sequences, FiniteSets, TLC

(***************************************************************************)
(* Bounds of the model.                                                    *)
(***************************************************************************)
MaxAdds == 2
MaxTags == 2

(***************************************************************************)
(* Characters, byte values and Go's string order.                          *)
(***************************************************************************)
Lower == {"a", "b", "c", "d", "e", "f", "g", "h", "i", "j", "k", "l", "m",
          "n", "o", "p", "q", "r", "s", "t", "u", "v", "w", "x", "y", "z"}
Upper == {"A", "B", "C", "D", "E", "F", "G", "H", "I", "J", "K", "L", "M",
          "N", "O", "P", "Q", "R", "S", "T", "U", "V", "W", "X", "Y", "Z"}
Digit == {"0", "1", "2", "3", "4", "5", "6", "7", "8", "9"}
Space == {" "}

\* Byte value of the characters the model uses (ASCII).
Ord(c) ==
    CASE c = " " -> 32 [] c = "!" -> 33 [] c = "," -> 44 [] c = "-" -> 45
      [] c = "." -> 46 [] c = "/" -> 47 [] c = ":" -> 58 [] c = "@" -> 64
      [] c = "_" -> 95 [] c = "a" -> 97 [] c = "b" -> 98 [] c = "x" -> 120
      [] c = "y" -> 121

\* s < t for Go strings: byte-wise lexicographic, a proper prefix is smaller.
RECURSIVE StrLess(_, _)
StrLess(s, t) ==
    IF t = <<>> THEN FALSE
    ELSE IF s = <<>> THEN TRUE
    ELSE IF Ord(Head(s)) # Ord(Head(t)) THEN Ord(Head(s)) < Ord(Head(t))
    ELSE StrLess(Tail(s), Tail(t))

IntLess(a, b) == a < b

\* a < b for the elements of a slice of type []T, T being "int" or "string".
Less(T, a, b) == IF T = "int" THEN IntLess(a, b) ELSE StrLess(a, b)

\* sortSlice[T Ordered](s []T): sort.Slice(s, func(i, j) bool { return s[i] < s[j] }).
\* Insertion sort: the elements before the last are sorted, and the last one
\* goes behind the elements it is not less than.
RECURSIVE sortSlice(_, _)
sortSlice(T, s) ==
    IF s = <<>> THEN <<>>
    ELSE LET x == s[Len(s)]
             prev == sortSlice(T, SubSeq(s, 1, Len(s) - 1))
             k == Cardinality({i \in DOMAIN prev : ~Less(T, x, prev[i])})
         IN  SubSeq(prev, 1, k) \o <<x>> \o SubSeq(prev, k + 1, Len(prev))

\* All orders in which a Go map range can deliver the keys of set S.
Orders(S) ==
    { q \in [1..Cardinality(S) -> S] : \A i, j \in DOMAIN q : i # j => q[i] # q[j] }

(***************************************************************************)
(* Sanitizers.                                                             *)
(***************************************************************************)
\* keyRegex = [^a-zA-Z0-9_/.-]+ : the characters it does NOT match.
KeyAllowed == Lower \cup Upper \cup Digit \cup {"_", "/", ".", "-"}

\* valueRegex of metrics.go = [^\w\d\s_:/@\.{}\[\]$-]+
ValueAllowed ==
    Lower \cup Upper \cup Digit \cup Space
          \cup {"_", ":", "/", "@", ".", "{", "}", "[", "]", "$", "-"}

\* value regex of the earlier file = [^\w\d_:/@\.{}\[\]$-]+ (no \s)
ValueAllowed_part000 ==
    Lower \cup Upper \cup Digit
          \cup {"_", ":", "/", "@", ".", "{", "}", "[", "]", "$", "-"}

\* Regexp.ReplaceAllString for a pattern [^...]+ : every maximal run of
\* characters outside the class is replaced by repl.  inRun says that the
\* character before s belongs to a run already replaced.
RECURSIVE ReplaceRuns(_, _, _, _)
ReplaceRuns(s, allowed, repl, inRun) ==
    IF s = <<>> THEN <<>>
    ELSE IF Head(s) \in allowed
         THEN <<Head(s)>> \o ReplaceRuns(Tail(s), allowed, repl, FALSE)
    ELSE IF inRun THEN ReplaceRuns(Tail(s), allowed, repl, TRUE)
    ELSE repl \o ReplaceRuns(Tail(s), allowed, repl, TRUE)

sanitizeKey(s) == ReplaceRuns(s, KeyAllowed, <<"_">>, FALSE)

sanitizeValue(s) == ReplaceRuns(s, ValueAllowed, <<>>, FALSE)

sanitizeValue_part000(s) == ReplaceRuns(s, ValueAllowed_part000, <<"_">>, FALSE)

(***************************************************************************)
(* fmt.Sprintf("%v") of int, float64 and uint32.                           *)
(***************************************************************************)
DigitChar(d) ==
    CASE d = 0 -> "0" [] d = 1 -> "1" [] d = 2 -> "2" [] d = 3 -> "3"
      [] d = 4 -> "4" [] d = 5 -> "5" [] d = 6 -> "6" [] d = 7 -> "7"
      [] d = 8 -> "8" [] d = 9 -> "9"

RECURSIVE FormatNat(_)
FormatNat(n) ==
    IF n < 10 THEN <<DigitChar(n)>>
    ELSE FormatNat(n \div 10) \o <<DigitChar(n % 10)>>

\* %v of an int: decimal, '-' for negatives.
FormatInt(n) == IF n < 0 THEN <<"-">> \o FormatNat(0 - n) ELSE FormatNat(n)

\* %v of a float64 given in halves: the shortest decimal that parses back,
\* i.e. the integer part, and ".5" when the value is not an integer.
FormatFloat(h) ==
    LET a == IF h < 0 THEN 0 - h ELSE h
        body == FormatNat(a \div 2) \o (IF a % 2 = 1 THEN <<".", "5">> ELSE <<>>)
    IN  IF h < 0 THEN <<"-">> \o body ELSE body

(***************************************************************************)
(* crc32.ChecksumIEEE.  A uint32 is the tuple of its 32 bits, the least    *)
(* significant bit first.                                                  *)
(***************************************************************************)
\* The reflected IEEE polynomial 0xEDB88320.
IEEEPoly == <<0, 0, 0, 0, 0, 1, 0, 0,   1, 1, 0, 0, 0, 0, 0, 1,
              0, 0, 0, 1, 1, 1, 0, 1,   1, 0, 1, 1, 0, 1, 1, 1>>

\* 0xFFFFFFFF
AllOnes == <<1, 1, 1, 1, 1, 1, 1, 1,   1, 1, 1, 1, 1, 1, 1, 1,
             1, 1, 1, 1, 1, 1, 1, 1,   1, 1, 1, 1, 1, 1, 1, 1>>

RECURSIVE Xor32(_, _)
Xor32(a, b) ==
    IF a = <<>> THEN <<>>
    ELSE <<(Head(a) + Head(b)) % 2>> \o Xor32(Tail(a), Tail(b))

Not32(a) == Xor32(a, AllOnes)
Shr1(a) == Tail(a) \o <<0>>

\* The k low bits of n, least significant first, zero-extended to width w.
RECURSIVE BitsOf(_, _)
BitsOf(n, w) == IF w = 0 THEN <<>> ELSE <<n % 2>> \o BitsOf(n \div 2, w - 1)
ByteWord(b) == BitsOf(b, 32)

RECURSIVE CrcShift(_, _)
CrcShift(crc, k) ==
    IF k = 0 THEN crc
    ELSE CrcShift(IF Head(crc) = 1 THEN Xor32(Shr1(crc), IEEEPoly) ELSE Shr1(crc),
                  k - 1)

RECURSIVE CrcUpdate(_, _)
CrcUpdate(crc, s) ==
    IF s = <<>> THEN crc
    ELSE CrcUpdate(CrcShift(Xor32(crc, ByteWord(Ord(Head(s)))), 8), Tail(s))

\* A checksum without the final complement.
ChecksumIEEE_NoFinalXor(s) == CrcUpdate(AllOnes, s)

ChecksumIEEE(s) == Not32(CrcUpdate(AllOnes, s))

\* Decimal digits (most significant first) of 2*ds + carry.
RECURSIVE DoubleAdd(_, _)
DoubleAdd(ds, carry) ==
    IF ds = <<>> THEN (IF carry = 0 THEN <<>> ELSE <<carry>>)
    ELSE LET n == Len(ds)
             d == 2 * ds[n] + carry
         IN  DoubleAdd(SubSeq(ds, 1, n - 1), d \div 10) \o <<d % 10>>

\* Decimal digits of the word whose bits, most significant first, are bits,
\* given the digits ds of the bits already read.
RECURSIVE DigitsFrom(_, _)
DigitsFrom(bits, ds) ==
    IF bits = <<>> THEN ds ELSE DigitsFrom(Tail(bits), DoubleAdd(ds, Head(bits)))

RECURSIVE Reverse(_)
Reverse(s) == IF s = <<>> THEN <<>> ELSE Reverse(Tail(s)) \o <<Head(s)>>

RECURSIVE DigitChars(_)
DigitChars(ds) ==
    IF ds = <<>> THEN <<>> ELSE <<DigitChar(Head(ds))>> \o DigitChars(Tail(ds))

\* %d of a uint32.
FormatUint32(w) ==
    LET ds == DigitsFrom(Reverse(w), <<>>)
    IN  IF ds = <<>> THEN <<"0">> ELSE DigitChars(ds)

(***************************************************************************)
(* Input domains.  A value passed to Add(value interface{}) carries its    *)
(* dynamic type t.                                                         *)
(***************************************************************************)
FloatVals == {-3, 2, 10, 18}            \* -1.5, 1.0, 5.0, 9.0
IntVals == {-1, 3, 5, 10}
StrVals == {<<"a">>, <<"b">>, <<"a", "b">>}

FloatV(h) == [t |-> "float64", v |-> h]
IntV(n) == [t |-> "int", v |-> n]
StrV(s) == [t |-> "string", v |-> s]

Values == {FloatV(h) : h \in FloatVals} \cup {IntV(n) : n \in IntVals}
              \cup {StrV(s) : s \in StrVals}

Keys == {<<"x", "!">>}
Timestamps == {1700000000}
RawTagKeys == {<<"a", "!">>, <<"a", "-">>, <<"a", "!", "!">>, <<"b">>}
RawTagValues == {<<"x">>, <<"y", " ", "!">>}
TagMaps ==
    UNION {[D -> RawTagValues] : D \in {E \in SUBSET RawTagKeys : Cardinality(E) <= MaxTags}}

None == "none"

(***************************************************************************)
(* Units.                                                                  *)
(***************************************************************************)
\* metrics.go: MetricUnit is a struct holding the name.
Second == [unit |-> "second"]
Byte == [unit |-> "byte"]
MetricUnit_toString(u) == u.unit

\* earlier file: MetricUnit is an int enumeration (iota).
Second_part000 == 3
Byte_part000 == 9
MetricUnit_toString_part000(u) ==
    CASE u = 0 -> "nanosecond" [] u = 1 -> "microsecond" [] u = 2 -> "millisecond"
      [] u = 3 -> "second" [] u = 4 -> "minute" [] u = 5 -> "hour"
      [] u = 6 -> "day" [] u = 7 -> "week" [] u = 8 -> "bit" [] u = 9 -> "byte"
      [] u = 10 -> "kilobyte" [] u = 11 -> "kibibyte" [] u = 12 -> "megabyte"
      [] u = 13 -> "mebibyte" [] u = 14 -> "gigabyte" [] u = 15 -> "gibibyte"
      [] u = 16 -> "terabyte" [] u = 17 -> "tebibyte" [] u = 18 -> "petabyte"
      [] u = 19 -> "pebibyte" [] u = 20 -> "exabyte" [] u = 21 -> "exbibyte"
      [] u = 22 -> "ratio" [] u = 23 -> "percent" [] OTHER -> "error"

(***************************************************************************)
(* Constructors.  A metric is the struct: its fields, the embedded         *)
(* abstractMetric, and its dynamic type.                                   *)
(***************************************************************************)
abstractMetric(key, unit, tags, timestamp) ==
    [key |-> key, unit |-> unit, tags |-> tags, timestamp |-> timestamp]

NewCounterMetric(key, unit, tags, timestamp, value) ==
    [type |-> "CounterMetric", value |-> value,
     abstractMetric |-> abstractMetric(key, unit, tags, timestamp)]

NewDistributionMetric(key, unit, tags, timestamp, value) ==
    [type |-> "DistributionMetric", values |-> <<value>>,
     abstractMetric |-> abstractMetric(key, unit, tags, timestamp)]

NewGaugeMetric(key, unit, tags, timestamp, value) ==
    [type |-> "GaugeMetric",
     last |-> value, min |-> value, max |-> value, sum |-> value, count |-> value,
     abstractMetric |-> abstractMetric(key, unit, tags, timestamp)]

\* metrics.go: values is a map[int]void; the type parameter T is not stored.
NewSetMetric(key, unit, tags, timestamp, value) ==
    [type |-> "SetMetric", values |-> {value},
     abstractMetric |-> abstractMetric(key, unit, tags, timestamp)]

\* earlier file: SetMetric[T], values is a map[T]void.
NewSetMetric_part000(T, key, unit, tags, timestamp, value) ==
    [type |-> "SetMetric", T |-> T, values |-> {value},
     abstractMetric |-> abstractMetric(key, unit, tags, timestamp)]

(***************************************************************************)
(* Add.  In metrics.go Add takes an interface{} and asserts its type; a    *)
(* failed assertion value.(T) panics before any field is written.  The     *)
(* result is the metric after the call and the panic, if any.              *)
(***************************************************************************)
NoPanic == ""
TypeAssertionError == "interface conversion"

Returned(m) == [m |-> m, panic |-> NoPanic]
Panicked(m) == [m |-> m, panic |-> TypeAssertionError]

Min(a, b) == IF a < b THEN a ELSE b
Max(a, b) == IF a > b THEN a ELSE b

CounterMetric_Add(c, value) ==
    IF value.t # "float64" THEN Panicked(c)
    ELSE Returned([c EXCEPT !.value = c.value + value.v])

\* An Add that skips a value already stored.
DistributionMetric_Add_Dedup(d, value) ==
    IF value.t # "float64" THEN Panicked(d)
    ELSE IF \E i \in DOMAIN d.values : d.values[i] = value.v THEN Returned(d)
    ELSE Returned([d EXCEPT !.values = Append(d.values, value.v)])

DistributionMetric_Add(d, value) ==
    IF value.t # "float64" THEN Panicked(d)
    ELSE Returned([d EXCEPT !.values = Append(d.values, value.v)])

\* An Add that also refreshes the timestamp.
GaugeMetric_Add_Restamp(g, value) ==
    IF value.t # "float64" THEN Panicked(g)
    ELSE LET v == value.v
         IN  Returned([g EXCEPT !.last = v,
                                !.min = Min(g.min, v),
                                !.max = Max(g.max, v),
                                !.sum = g.sum + v,
                                !.count = g.count + 2,
                                !.abstractMetric.timestamp = g.abstractMetric.timestamp + 1])

\* count++ on a float64 adds 1.0, i.e. two halves.
GaugeMetric_Add(g, value) ==
    IF value.t # "float64" THEN Panicked(g)
    ELSE LET v == value.v
         IN  Returned([g EXCEPT !.last = v,
                                !.min = Min(g.min, v),
                                !.max = Max(g.max, v),
                                !.sum = g.sum + v,
                                !.count = g.count + 2])

\* An Add that ignores a value that is not an int.
SetMetric_Add_Silent(s, value) ==
    IF value.t # "int" THEN Returned(s)
    ELSE Returned([s EXCEPT !.values = s.values \cup {value.v}])

SetMetric_Add(s, value) ==
    IF value.t # "int" THEN Panicked(s)
    ELSE Returned([s EXCEPT !.values = s.values \cup {value.v}])

\* earlier file: Add(value T); the compiler admits only values of type T.
SetMetric_Add_part000(s, value) ==
    Returned([s EXCEPT !.values = s.values \cup {value.v}])

(***************************************************************************)
(* SerializeValue, GetType, GetWeight.                                     *)
(***************************************************************************)
CounterMetric_SerializeValue(c) == <<":">> \o FormatFloat(c.value)

CounterMetric_SerializeValue_part000(c) == FormatFloat(c.value)

\* for _, el := range values { sb.WriteString(fmt.Sprintf(":%v", el)) } for
\* a slice of T, T being "float64", "int", or "string" (the earlier file
\* writes the CRC-32 of a string).
FormatElement(T, el) ==
    CASE T = "float64" -> FormatFloat(el)
      [] T = "int" -> FormatInt(el)
      [] T = "string" -> FormatUint32(ChecksumIEEE(el))

RECURSIVE WriteElements(_, _)
WriteElements(T, values) ==
    IF values = <<>> THEN <<>>
    ELSE <<":">> \o FormatElement(T, Head(values)) \o WriteElements(T, Tail(values))

DistributionMetric_SerializeValue(d) == WriteElements("float64", d.values)

GaugeMetric_SerializeValue(g) ==
    <<":">> \o FormatFloat(g.last) \o <<":">> \o FormatFloat(g.min)
        \o <<":">> \o FormatFloat(g.max) \o <<":">> \o FormatFloat(g.sum)
        \o <<":">> \o FormatFloat(g.count)

\* order is the order in which the range over s.values delivers the keys.
\* A SerializeValue that writes the keys in the order of the range.
SetMetric_SerializeValue_Unsorted(s, order) == WriteElements("int", order)

SetMetric_SerializeValue(s, order) == WriteElements("int", sortSlice("int", order))

setStringKeyToInt(s) == ChecksumIEEE(s)

\* slices.Sort on a []T, T int or string.
slices_Sort(T, s) == sortSlice(T, s)

SetMetric_SerializeValue_part000(s, order) ==
    WriteElements(s.T, slices_Sort(s.T, order))

GetType(m) ==
    CASE m.type = "CounterMetric" -> "c"
      [] m.type = "DistributionMetric" -> "d"
      [] m.type = "GaugeMetric" -> "g"
      [] m.type = "SetMetric" -> "s"

GetWeight(m) ==
    CASE m.type = "CounterMetric" -> 1
      [] m.type = "DistributionMetric" -> Len(m.values)
      [] m.type = "GaugeMetric" -> 5
      [] m.type = "SetMetric" -> Cardinality(m.values)

(***************************************************************************)
(* Tag serialization.                                                      *)
(***************************************************************************)
\* s[:len(s)-1] when s is not empty
DropLast(s) == IF Len(s) > 0 THEN SubSeq(s, 1, Len(s) - 1) ELSE s

\* metrics.go: order is the order of the range over tags; the raw keys are
\* sorted, then each entry is sanitized and written.
RECURSIVE WriteTags(_, _)
WriteTags(tags, values) ==
    IF values = <<>> THEN <<>>
    ELSE sanitizeKey(Head(values)) \o <<":">> \o sanitizeValue(tags[Head(values)])
             \o <<",">> \o WriteTags(tags, Tail(values))

\* A serializeTags that writes the entries in the order of the range.
serializeTags_Unsorted(tags, order) == DropLast(WriteTags(tags, order))

serializeTags(tags, order) == DropLast(WriteTags(tags, sortSlice("string", order)))

\* earlier file: the entries are written in the order of the range.
RECURSIVE WriteTags_part000(_, _)
WriteTags_part000(tags, order) ==
    IF order = <<>> THEN <<>>
    ELSE sanitizeKey(Head(order)) \o <<":">> \o sanitizeValue_part000(tags[Head(order)])
             \o <<",">> \o WriteTags_part000(tags, Tail(order))

abstractMetric_serializeTags(am, order) == DropLast(WriteTags_part000(am.tags, order))

(***************************************************************************)
(* State.                                                                  *)
(***************************************************************************)
VARIABLES
    rev,      \* the revision running: "metrics.go" or "part_000"
    m,        \* the metric
    hist,     \* the observations m has accepted, the initial one first
    op,       \* the last operation called on m
    arg,      \* the value passed to the last Add
    ret,      \* what the last operation returned
    panic,    \* the panic the last operation raised, NoPanic if none
    gor,      \* per goroutine calling GaugeMetric.Add: its position, v, and
              \* the field value it has loaded
    overlap   \* some Add began while another was in progress

vars == <<rev, m, hist, op, arg, ret, panic, gor, overlap>>

Revs == {"metrics.go", "part_000"}
Goroutines == {1, 2}
Idle == [pc |-> "idle", v |-> 0, tmp |-> 0]

UnitSecond(r) == IF r = "metrics.go" THEN Second ELSE Second_part000
UnitByte(r) == IF r = "metrics.go" THEN Byte ELSE Byte_part000

\* Tag mappings of the metrics whose accumulation is explored.
NoTags == <<>>
SomeTags == {NoTags, (<<"a", "!">> :> <<"y", " ", "!">>) @@ (<<"b">> :> <<"x">>)}

InitMetric(r, key, tags, timestamp) ==
    \/ \E v \in FloatVals :
         /\ \/ m = NewCounterMetric(key, UnitSecond(r), tags, timestamp, v)
            \/ m = NewDistributionMetric(key, UnitSecond(r), tags, timestamp, v)
            \/ m = NewGaugeMetric(key, UnitSecond(r), tags, timestamp, v)
         /\ hist = <<FloatV(v)>>
    \/ /\ r = "metrics.go"
       /\ \E v \in IntVals :
            /\ m = NewSetMetric(key, UnitByte(r), tags, timestamp, v)
            /\ hist = <<IntV(v)>>
    \/ /\ r = "part_000"
       /\ \E value \in {x \in Values : x.t \in {"int", "string"}} :
            /\ m = NewSetMetric_part000(value.t, key, UnitByte(r), tags, timestamp, value.v)
            /\ hist = <<value>>

InitRest ==
    /\ op = "New"
    /\ arg = None
    /\ ret = None
    /\ panic = NoPanic
    /\ gor = [i \in Goroutines |-> Idle]
    /\ overlap = FALSE

\* Any metric of either revision, right after its constructor returned.
Init ==
    /\ rev \in Revs
    /\ \E key \in Keys, tags \in SomeTags, timestamp \in Timestamps :
         InitMetric(rev, key, tags, timestamp)
    /\ InitRest

\* A counter with any tag mapping of up to MaxTags entries.
InitTags ==
    /\ rev \in Revs
    /\ \E key \in Keys, tags \in TagMaps, timestamp \in Timestamps :
         /\ m = NewCounterMetric(key, UnitSecond(rev), tags, timestamp, 2)
         /\ hist = <<FloatV(2)>>
    /\ InitRest

\* A gauge shared by the goroutines.
InitGauge ==
    /\ rev \in Revs
    /\ \E key \in Keys, timestamp \in Timestamps, v \in FloatVals :
         /\ m = NewGaugeMetric(key, UnitSecond(rev), NoTags, timestamp, v)
         /\ hist = <<FloatV(v)>>
    /\ InitRest

(***************************************************************************)
(* Operations of the Metric interface.                                     *)
(***************************************************************************)
\* The parameter type of Add in the earlier file.
ParamType_part000(x) ==
    IF x.type = "SetMetric" THEN x.T ELSE "float64"

MetricAdd(r, x, value) ==
    CASE x.type = "CounterMetric" -> CounterMetric_Add(x, value)
      [] x.type = "DistributionMetric" -> DistributionMetric_Add(x, value)
      [] x.type = "GaugeMetric" -> GaugeMetric_Add(x, value)
      [] x.type = "SetMetric" ->
            IF r = "metrics.go" THEN SetMetric_Add(x, value)
            ELSE SetMetric_Add_part000(x, value)

Add ==
    /\ Len(hist) <= MaxAdds
    /\ \E value \in Values :
         /\ rev = "part_000" => value.t = ParamType_part000(m)
         /\ LET res == MetricAdd(rev, m, value)
            IN  /\ m' = res.m
                /\ panic' = res.panic
                /\ hist' = IF res.panic = NoPanic THEN Append(hist, value) ELSE hist
         /\ arg' = value
    /\ op' = "Add"
    /\ ret' = None
    /\ UNCHANGED <<rev, gor, overlap>>

Read(name, result) ==
    /\ op' = name
    /\ ret' = result
    /\ arg' = None
    /\ panic' = NoPanic
    /\ UNCHANGED <<rev, m, hist, gor, overlap>>

SerializeValue ==
    CASE m.type = "CounterMetric" ->
            Read("SerializeValue",
                 IF rev = "metrics.go" THEN CounterMetric_SerializeValue(m)
                 ELSE CounterMetric_SerializeValue_part000(m))
      [] m.type = "DistributionMetric" ->
            Read("SerializeValue", DistributionMetric_SerializeValue(m))
      [] m.type = "GaugeMetric" ->
            Read("SerializeValue", GaugeMetric_SerializeValue(m))
      [] m.type = "SetMetric" ->
            \E order \in Orders(m.values) :
                Read("SerializeValue",
                     IF rev = "metrics.go" THEN SetMetric_SerializeValue(m, order)
                     ELSE SetMetric_SerializeValue_part000(m, order))

SerializeTags ==
    \E order \in Orders(DOMAIN m.abstractMetric.tags) :
        Read("SerializeTags",
             IF rev = "metrics.go" THEN serializeTags(m.abstractMetric.tags, order)
             ELSE abstractMetric_serializeTags(m.abstractMetric, order))

CallGetType == Read("GetType", GetType(m))

CallGetWeight == rev = "metrics.go" /\ Read("GetWeight", GetWeight(m))

GetTags == Read("GetTags", m.abstractMetric.tags)

GetKey == Read("GetKey", m.abstractMetric.key)

GetUnit ==
    Read("GetUnit",
         IF rev = "metrics.go" THEN MetricUnit_toString(m.abstractMetric.unit)
         ELSE MetricUnit_toString_part000(m.abstractMetric.unit))

GetTimestamp == Read("GetTimestamp", m.abstractMetric.timestamp)

Next ==
    \/ Add
    \/ SerializeValue
    \/ SerializeTags
    \/ CallGetType
    \/ CallGetWeight
    \/ GetTags
    \/ GetKey
    \/ GetUnit
    \/ GetTimestamp

Spec == Init /\ [][Next]_vars

NextTags ==
    \/ Add
    \/ SerializeTags
    \/ GetTags

SpecTags == InitTags /\ [][NextTags]_vars

(***************************************************************************)
(* GaugeMetric.Add called from several goroutines without synchronization. *)
(* Each statement of Add is a load of the field followed by a store; the   *)
(* loads and stores of the goroutines interleave.                          *)
(***************************************************************************)
Busy(i) == gor[i].pc # "idle"

\* v := value.(float64)
AddBegin(i) ==
    /\ ~Busy(i)
    /\ Len(hist) + Cardinality({j \in Goroutines : Busy(j)}) <= MaxAdds
    /\ \E v \in FloatVals : gor' = [gor EXCEPT ![i] = [pc |-> "last", v |-> v, tmp |-> 0]]
    /\ overlap' = (overlap \/ \E j \in Goroutines : Busy(j))
    /\ UNCHANGED <<rev, m, hist, op, arg, ret, panic>>

Step(i, from, to, newm, newtmp) ==
    /\ gor[i].pc = from
    /\ gor' = [gor EXCEPT ![i].pc = to, ![i].tmp = newtmp]
    /\ m' = newm
    /\ UNCHANGED <<rev, hist, op, arg, ret, panic, overlap>>

\* g.last = v
StoreLast(i) == Step(i, "last", "loadMin", [m EXCEPT !.last = gor[i].v], 0)

\* g.min = math.Min(g.min, v)
LoadMin(i) == Step(i, "loadMin", "storeMin", m, m.min)
StoreMin(i) ==
    Step(i, "storeMin", "loadMax", [m EXCEPT !.min = Min(gor[i].tmp, gor[i].v)], 0)

\* g.max = math.Max(g.max, v)
LoadMax(i) == Step(i, "loadMax", "storeMax", m, m.max)
StoreMax(i) ==
    Step(i, "storeMax", "loadSum", [m EXCEPT !.max = Max(gor[i].tmp, gor[i].v)], 0)

\* g.sum += v
LoadSum(i) == Step(i, "loadSum", "storeSum", m, m.sum)
\* g.sum = v
StoreSum_Overwrite(i) ==
    Step(i, "storeSum", "loadCount", [m EXCEPT !.sum = gor[i].v], 0)

StoreSum(i) ==
    Step(i, "storeSum", "loadCount", [m EXCEPT !.sum = gor[i].tmp + gor[i].v], 0)

\* g.count++
LoadCount(i) == Step(i, "loadCount", "storeCount", m, m.count)
StoreCount(i) ==
    /\ gor[i].pc = "storeCount"
    /\ gor' = [gor EXCEPT ![i] = Idle]
    /\ m' = [m EXCEPT !.count = gor[i].tmp + 2]
    /\ hist' = Append(hist, FloatV(gor[i].v))
    /\ UNCHANGED <<rev, op, arg, ret, panic, overlap>>

NextGauge ==
    \E i \in Goroutines :
        \/ AddBegin(i)
        \/ StoreLast(i)
        \/ LoadMin(i)
        \/ StoreMin(i)
        \/ LoadMax(i)
        \/ StoreMax(i)
        \/ LoadSum(i)
        \/ StoreSum(i)
        \/ LoadCount(i)
        \/ StoreCount(i)

SpecGauge == InitGauge /\ [][NextGauge]_vars

(***************************************************************************)
(* Reading the serialized text back.                                       *)
(***************************************************************************)
\* The pieces of s between occurrences of c.
RECURSIVE Split(_, _)
Split(s, c) ==
    IF s = <<>> THEN << <<>> >>
    ELSE LET rest == Split(Tail(s), c)
         IN  IF Head(s) = c THEN << <<>> >> \o rest
             ELSE << <<Head(s)>> \o rest[1] >> \o Tail(rest)

\* s is ":f1:f2...:fn" (n >= 0): every field is introduced by its own ':'.
ColonPrefixed(s) == s = <<>> \/ Head(s) = ":"
ColonFields(s) == IF s = <<>> THEN <<>> ELSE Tail(Split(s, ":"))

IsDigits(s) == s # <<>> /\ \A i \in DOMAIN s : s[i] \in Digit
DigitVal(c) == CHOOSE d \in 0..9 : DigitChar(d) = c

RECURSIVE ParseNat(_)
ParseNat(s) ==
    IF s = <<>> THEN 0
    ELSE 10 * ParseNat(SubSeq(s, 1, Len(s) - 1)) + DigitVal(s[Len(s)])

Unsigned(s) == IF s # <<>> /\ Head(s) = "-" THEN Tail(s) ELSE s
Negative(s) == s # <<>> /\ Head(s) = "-"

IsIntText(s) == IsDigits(Unsigned(s))
ParseInt(s) == IF Negative(s) THEN 0 - ParseNat(Unsigned(s)) ELSE ParseNat(s)

\* Decimal text with at most the fraction ".5"; the value is read in halves.
HasHalf(s) == Len(s) > 2 /\ SubSeq(s, Len(s) - 1, Len(s)) = <<".", "5">>
Whole(s) == IF HasHalf(s) THEN SubSeq(s, 1, Len(s) - 2) ELSE s
IsFloatText(s) == IsDigits(Whole(Unsigned(s)))
ParseFloat(s) ==
    LET u == Unsigned(s)
        a == 2 * ParseNat(Whole(u)) + (IF HasHalf(u) THEN 1 ELSE 0)
    IN  IF Negative(s) THEN 0 - a ELSE a

\* The keys of "k1:v1,k2:v2,...": the text of each entry before its first ':'.
OutputKeys(s) ==
    IF s = <<>> THEN <<>>
    ELSE LET entries == Split(s, ",")
         IN  [i \in DOMAIN entries |-> Split(entries[i], ":")[1]]

\* The elements of S in ascending order.
Ascending(S, less(_, _)) ==
    CHOOSE q \in Orders(S) : \A i \in 1..(Len(q) - 1) : less(q[i], q[i + 1])

Observed == [i \in DOMAIN hist |-> hist[i].v]
ObservedSet == {hist[i].v : i \in DOMAIN hist}

RECURSIVE SumOf(_)
SumOf(q) == IF q = <<>> THEN 0 ELSE Head(q) + SumOf(Tail(q))
MinOf(q) == CHOOSE x \in {q[i] : i \in DOMAIN q} : \A i \in DOMAIN q : x <= q[i]
MaxOf(q) == CHOOSE x \in {q[i] : i \in DOMAIN q} : \A i \in DOMAIN q : x >= q[i]

IsGauge == m.type = "GaugeMetric"
IsCounter == m.type = "CounterMetric"
IsDistribution == m.type = "DistributionMetric"
IsIntSet == m.type = "SetMetric" /\ (rev = "part_000" => m.T = "int")
IsStringSet == m.type = "SetMetric" /\ rev = "part_000" /\ m.T = "string"

(***************************************************************************)
(* C1.  A Gauge holds last = the latest observation, min and max = the      *)
(* least and greatest observation, sum = their sum and count = their       *)
(* number (the initial observation included), and SerializeValue writes    *)
(* these five in the order last, min, max, sum, count.                     *)
(***************************************************************************)
GaugeFieldsButCount ==
    /\ m.last = Observed[Len(hist)]
    /\ m.min = MinOf(Observed)
    /\ m.max = MaxOf(Observed)
    /\ m.sum = SumOf(Observed)

GaugeText(fields) ==
    /\ ColonPrefixed(ret)
    /\ LET f == ColonFields(ret)
       IN  /\ Len(f) = 5
           /\ \A i \in 1..5 : IsFloatText(f[i]) /\ ParseFloat(f[i]) = fields[i]

C1_GaugeStatistics ==
    IsGauge =>
        /\ GaugeFieldsButCount
        /\ m.count = 2 * Len(hist)
        /\ op = "SerializeValue" =>
               GaugeText(<<Observed[Len(hist)], MinOf(Observed), MaxOf(Observed),
                           SumOf(Observed), 2 * Len(hist)>>)

\* What the code keeps instead: count starts at the initial value, so it is
\* the initial value plus the number of Adds.
C1_GaugeCountFromInitialValue ==
    IsGauge =>
        /\ GaugeFieldsButCount
        /\ m.count = Observed[1] + 2 * (Len(hist) - 1)
        /\ op = "SerializeValue" =>
               GaugeText(<<m.last, m.min, m.max, m.sum, m.count>>)

(***************************************************************************)
(* C2.  An Add on a Set with a value of another kind than the Set's        *)
(* element kind fails with a type-mismatch error and leaves the stored     *)
(* elements as they were.                                                  *)
(***************************************************************************)
ElementKind == IF rev = "metrics.go" THEN "int" ELSE m.T

C2_SetAddKindMismatchRejected ==
    [][(op' = "Add" /\ m.type = "SetMetric" /\ arg'.t # ElementKind)
          => (panic' = TypeAssertionError /\ m'.values = m.values /\ hist' = hist)]_vars

C2_Witness ==
    /\ op = "Add"
    /\ m.type = "SetMetric"
    /\ arg \in {StrV(x) : x \in StrVals}
    /\ panic = TypeAssertionError
    /\ Len(hist) > 1

(***************************************************************************)
(* C3.  The entries written by serializeTags are in ascending order of     *)
(* their sanitized keys.                                                   *)
(***************************************************************************)
TagsOf == m.abstractMetric.tags

C4_TagSerializationDeterministic ==
    [][(op = "SerializeTags" /\ op' = "SerializeTags") => ret' = ret]_vars

\* The same, for serializeTags of metrics.go alone.
C4_DeterministicInMetricsGo ==
    [][(rev = "metrics.go" /\ op = "SerializeTags" /\ op' = "SerializeTags")
          => ret' = ret]_vars

(***************************************************************************)
(* C5.  An integer Set stores exactly the distinct observed values, and    *)
(* SerializeValue writes each once, ':'-prefixed, in ascending numeric     *)
(* order.                                                                  *)
(***************************************************************************)
C5_IntSet ==
    IsIntSet =>
        /\ m.values = ObservedSet
        /\ op = "SerializeValue" =>
             /\ ColonPrefixed(ret)
             /\ LET f == ColonFields(ret)
                IN  /\ \A i \in DOMAIN f : IsIntText(f[i])
                    /\ \A i \in 1..(Len(f) - 1) : ParseInt(f[i]) < ParseInt(f[i + 1])
                    /\ {ParseInt(f[i]) : i \in DOMAIN f} = ObservedSet

C5_Witness ==
    /\ IsIntSet
    /\ Observed = <<5, 3, 5>>
    /\ op = "SerializeValue"
    /\ ret = <<":", "3", ":", "5">>

(***************************************************************************)
(* C6.  A Set of strings writes, for its distinct strings taken in         *)
(* ascending lexicographic order, the decimal CRC-32 (IEEE) of each; no    *)
(* raw string is written.                                                  *)
(***************************************************************************)
\* CRC-32/ISO-HDLC check values of the strings of StrVals.
ReferenceCrc(s) ==
    CASE s = <<"a">> -> <<"3", "9", "0", "4", "3", "5", "5", "9", "0", "7">>
      [] s = <<"b">> -> <<"1", "9", "0", "8", "3", "3", "8", "6", "8", "1">>
      [] s = <<"a", "b">> -> <<"2", "6", "5", "9", "4", "0", "3", "8", "8", "5">>

C7_CounterText ==
    IsCounter =>
        /\ m.value = SumOf(Observed)
        /\ op = "SerializeValue" =>
             /\ ret # <<>>
             /\ Head(ret) = ":"
             /\ IsFloatText(Tail(ret))
             /\ ParseFloat(Tail(ret)) = SumOf(Observed)

\* The same, for metrics.go alone.
C7_CounterTextInMetricsGo == rev = "metrics.go" => C7_CounterText

(***************************************************************************)
(* C8.  A Distribution stores the observations in the order they came,     *)
(* duplicates kept, and SerializeValue writes them in that order, each     *)
(* after a ':'.                                                            *)
(***************************************************************************)
C8_Distribution ==
    IsDistribution =>
        /\ m.values = Observed
        /\ Len(m.values) >= 1
        /\ op = "SerializeValue" =>
             /\ ColonPrefixed(ret)
             /\ LET f == ColonFields(ret)
                IN  /\ Len(f) = Len(hist)
                    /\ \A i \in DOMAIN f :
                          IsFloatText(f[i]) /\ ParseFloat(f[i]) = Observed[i]

C8_Witness ==
    /\ IsDistribution
    /\ Observed = <<2, 10, 2>>
    /\ op = "SerializeValue"
    /\ ret = <<":", "1", ":", "5", ":", "1">>

(***************************************************************************)
(* C9.  No operation changes key, unit, tags or timestamp; only Add        *)
(* changes the metric at all; SerializeValue called twice in a row gives   *)
(* the same text.                                                          *)
(***************************************************************************)
C9_IdentityImmutable ==
    [][/\ m'.abstractMetric = m.abstractMetric
       /\ m'.type = m.type
       /\ op' # "Add" => m' = m
       /\ (op = "SerializeValue" /\ op' = "SerializeValue") => ret' = ret]_vars

C9_Witness ==
    /\ op = "SerializeValue"
    /\ m.type = "SetMetric"
    /\ Cardinality(m.values) > 1
    /\ DOMAIN TagsOf # {}

(***************************************************************************)
(* C10.  When the Adds on a Gauge do not overlap, the Gauge is what the    *)
(* Adds give one after the other; Adds that overlap can leave a state      *)
(* that no order of them gives.                                            *)
(***************************************************************************)
RECURSIVE AddAll(_, _)
AddAll(g, q) ==
    IF q = <<>> THEN g ELSE AddAll(GaugeMetric_Add(g, Head(q)).m, Tail(q))

Sequential(q) ==
    AddAll(NewGaugeMetric(m.abstractMetric.key, m.abstractMetric.unit,
                          m.abstractMetric.tags, m.abstractMetric.timestamp, q[1].v),
           Tail(q))

Quiescent == \A i \in Goroutines : ~Busy(i)

C10_SerializedAddsAreSequential ==
    (Quiescent /\ ~overlap) => m = Sequential(hist)

C10_Witness ==
    /\ Quiescent
    /\ overlap
    /\ Len(hist) = 3
    /\ m # Sequential(hist)
    /\ m # Sequential(<<hist[1], hist[3], hist[2]>>)

TypeOK == panic \in {NoPanic, TypeAssertionError}
====
